---- MODULE Spec2Model ----
(***************************************************************************)
(* A model of cinn::auto_schedule::EvolutionarySearch                      *)
(* (cinn/auto_schedule/search_strategy/evolutionary_search.cc).            *)
(*                                                                         *)
(* A module (ir::ModuleExpr) is a sequence of expressions, an expression a *)
(* small integer.  SearchState equality and hashing are structural over    *)
(* the module, so the fingerprint of a state is its sequence of            *)
(* expressions.  The random engine, the sketch generator, the scored       *)
(* mutation, the bounded multiset and the database are collaborators of    *)
(* the search whose code lies outside the files modelled here; they are    *)
(* written after their description in the specification.                   *)
(*                                                                         *)
(* The module also models ReduceSplitPass::Apply and DivideToClosetNum     *)
(* (cinn/hlir/op/contrib/one_hot.cc): a graph is the sequence of its       *)
(* operator nodes in topological order, each with the shapes of its input  *)
(* and output.                                                             *)
(***************************************************************************)
EXTENDS Integers, Sequences, FiniteSets, TLC

\* ------------------------------------------------------------ bounds
MaxSeed == 2
MaxRecords == 2
MaxPopulation == 3
MaxCrossOver == 2
MaxSamples == 4
MaxCalls == 2
ModuleSize == 2
NumExprVals == 2
MaxRank == 3
MaxDim == 5
MaxNumel == 40

\* ------------------------------------------------------------ helpers
Min(a, b) == IF a <= b THEN a ELSE b

Max(a, b) == IF a >= b THEN a ELSE b

RemoveAt(s, k) == SubSeq(s, 1, k - 1) \o SubSeq(s, k + 1, Len(s))

RECURSIVE SumSeq(_)
SumSeq(s) == IF s = <<>> THEN 0 ELSE Head(s) + SumSeq(Tail(s))

\* ------------------------------------------------------------ utils::LinearRandomEngine
\* A linear-congruential engine: state' = state * multiplier % modulus.
LCG_Modulus == 31

LCG_Multiplier == 3

LCG_ForkMultiplier == 7

\* normalize(seed) -> state: a state is never 0 (0 is a fixed point of the engine).
NormalizeState(seed) == IF seed % LCG_Modulus = 0 THEN 1 ELSE seed % LCG_Modulus

\* The state after one draw.
NextState(state) == (state * LCG_Multiplier) % LCG_Modulus

\* sample_uniform_int(lo, hi_excl, &state): the value drawn; the state becomes
\* NextState(state).  An empty range yields lo.
SampleUniformInt(lo, hi, state) ==
  IF hi <= lo THEN lo ELSE lo + (NextState(state) % (hi - lo))

\* fork(&state) -> state': one value is drawn from state (which becomes
\* NextState(state)) and seeds the forked state.
ForkRandomState(state) == NormalizeState(NextState(state) * LCG_ForkMultiplier)

\* ------------------------------------------------------------ SearchState
\* SearchState::NOT_INIT: the cost of a state that was not scored.
NOT_INIT == -1

\* origin is not a field of the program: it records how the state was made.
SearchState(exprs, rand, cost, origin) ==
  [exprs |-> exprs, rand |-> rand, predicted_cost |-> cost, origin |-> origin]

\* Hash and equality of SearchState are structural over the IR.
Fingerprint(state) == state.exprs

Fingerprints(states) == {Fingerprint(states[k]) : k \in 1..Len(states)}

\* ------------------------------------------------------------ ExprCostModel
\* predict(ir) -> finite non-negative real: a function of the IR alone.
Predict(exprs) == SumSeq(exprs)

\* ------------------------------------------------------------ SearchSpace
RECURSIVE AllModules(_)
\* Every module of n expressions, in a fixed order.
AllModules(n) ==
  IF n = 0 THEN << <<>> >>
  ELSE LET shorter == AllModules(n - 1)
           total == Len(shorter) * NumExprVals
       IN [k \in 1..total |->
             Append(shorter[((k - 1) \div NumExprVals) + 1], (k - 1) % NumExprVals)]

SketchSpace == AllModules(ModuleSize)

\* The index (from 0) drawn among `len` remaining sketches.  rule_prune samples
\* proportionally to a static priority (the first remaining sketch weighs
\* double), random_prune uniformly.
SketchDraw(strategy, len, state) ==
  IF strategy = "rule_prune"
  THEN Max(SampleUniformInt(0, len + 1, state) - 1, 0)
  ELSE SampleUniformInt(0, len, state)

RECURSIVE GenerateSketchesFrom(_, _, _, _, _)
GenerateSketchesFrom(num, strategy, state, remaining, acc) ==
  IF num <= 0 \/ remaining = <<>>
  THEN [states |-> acc, rand_seed |-> state]
  ELSE LET k == SketchDraw(strategy, Len(remaining), state) + 1
           s1 == NextState(state)
       IN GenerateSketchesFrom(
            num - 1, strategy, NextState(s1), RemoveAt(remaining, k),
            Append(acc, SearchState(remaining[k], ForkRandomState(s1), NOT_INIT, "sketch")))

\* SearchSpace::GenerateSketches(num, strategy): num sketches, distinct by
\* fingerprint, or all the space holds; with the state of the space's engine
\* after the draws.
GenerateSketches(num, strategy, state) ==
  GenerateSketchesFrom(num, strategy, state, SketchSpace, <<>>)

\* SearchSpace::GetScheduleMutate(state, cost_model): one mutation (one
\* expression rewritten to a drawn value), scored; a module with no expression
\* is returned as it is, scored.  Draws come from the space's engine.
GetScheduleMutate(state, ss_rand) ==
  IF state.exprs = <<>>
  THEN [state |-> SearchState(state.exprs, state.rand, Predict(state.exprs), "mutate"),
        rand_seed |-> ss_rand]
  ELSE LET pos == SampleUniformInt(0, Len(state.exprs), ss_rand) + 1
           s1 == NextState(ss_rand)
           val == SampleUniformInt(0, NumExprVals, s1)
           s2 == NextState(s1)
           exprs == [state.exprs EXCEPT ![pos] = val]
       IN [state |-> SearchState(exprs, ForkRandomState(s2), Predict(exprs), "mutate"),
           rand_seed |-> NextState(s2)]

\* ------------------------------------------------------------ utils::SizedMultiSet
\* The position (from 0) after the last element whose cost is not above c.
UpperBound(set, c) == Cardinality({k \in 1..Len(set) : set[k].predicted_cost <= c})

\* Push: insert in cost order, after the elements of equal cost; beyond the
\* capacity the largest element (the last) is evicted.
Push(set, state, capacity) ==
  LET at == UpperBound(set, state.predicted_cost)
      grown == SubSeq(set, 1, at) \o <<state>> \o SubSeq(set, at + 1, Len(set))
  IN IF Len(grown) > capacity THEN SubSeq(grown, 1, Len(grown) - 1) ELSE grown

\* ReturnAsContainer: the elements in ascending order.
ReturnAsContainer(set) == set

\* ------------------------------------------------------------ Database
\* The record of rank c: its trace replays to a module of ModuleSize copies of
\* expression c % NumExprVals.
Record(c) ==
  [trace |-> [k \in 1..ModuleSize |-> c % NumExprVals], predicted_cost |-> c]

\* A database of n records of the task, best first.
DatabaseOf(n) == [c \in 1..n |-> Record(c - 1)]

\* A record stored for another lowering of the task: its trace replays to a
\* module of one expression fewer.
StaleRecord(c) ==
  [trace |-> [k \in 1..(ModuleSize - 1) |-> c % NumExprVals], predicted_cost |-> c]

\* A database of n records whose last record is stale.
DatabaseStale(n) == [c \in 1..n |-> IF c = n THEN StaleRecord(c - 1) ELSE Record(c - 1)]

\* Database::GetTopK(task_key, topk): the topk best records, all when fewer.
GetTopK(database, topk) == SubSeq(database, 1, Min(Max(topk, 0), Len(database)))

\* ir::ScheduleDesc::ReplayWithProto(trace, &ir_sch): the module the trace yields.
ReplayWithProto(trace) == trace

\* ------------------------------------------------------------ EvolutionarySearch
VARIABLES
  options,              \* the TuningOptions of the calls
  database_,            \* the records of the task, best first
  rand_seed,            \* the constructor's rand_seed argument
  mutate_throws,        \* the modules on which the mutation rule of the space throws
  rand_seed_,           \* EvolutionarySearch::rand_seed_
  search_space_,        \* the engine state of *search_space_
  visited_candidates_,  \* fingerprints of the states returned by the eps-greedy pick
  pc,                   \* where the running call stands
  call,                 \* the entry point of the running call
  population,           \* Evolve's argument (init_population)
  evolution,            \* Evolve: population, then the children
  cross_i,              \* Evolve: index of the crossover loop
  first_rand_idx,
  second_rand_idx,
  mutate_i,             \* Evolve: index of the mutation loop
  evolution_with_cost,  \* Evolve: the SizedMultiSet
  picked_bests,
  random_init,
  result,
  best_idx,
  rand_idx,
  deduplicated_cnt,
  ncalls,               \* history: calls completed
  returned,             \* history: the fingerprints each completed eps-greedy call returned
  visited_at_entry,     \* history: visited_candidates_ when the running pick began
  seed_at_evolve,       \* history: rand_seed_ when the running Evolve began
  scored,               \* history: the states pushed by the running Evolve, in order
  parents,              \* history: the crossovers of the running Evolve
  slot_from,            \* history: where each state of result was taken from
  draws,                \* history: the random draws of the running call, in order
  graph,                \* ReduceSplitPass: the operator nodes, in topological order
  pass_pc,              \* ReduceSplitPass: where Apply stands
  node_i,               \* ReduceSplitPass: index of the loop over the nodes
  div_n,                \* DivideToClosetNum: n
  div_a,                \* DivideToClosetNum: a
  div_b,                \* DivideToClosetNum: b
  rewritten,            \* ReduceSplitPass: what stands in the graph for each node examined
  cnt,                  \* ReduceSplitPass: the number of nodes split
  run,                  \* history: 1 for the first run of the program, 2 for the second
  first_run             \* history: what the calls of the first run returned

inputVars == <<options, database_, rand_seed, mutate_throws>>

evolveVars ==
  <<population, evolution, cross_i, first_rand_idx, second_rand_idx, mutate_i,
    evolution_with_cost, picked_bests>>

pickVars == <<random_init, result, best_idx, rand_idx, deduplicated_cnt>>

historyVars ==
  <<ncalls, returned, visited_at_entry, seed_at_evolve, scored, parents, slot_from, draws>>

runVars == <<run, first_run>>

searchVars ==
  <<inputVars, runVars, rand_seed_, search_space_, visited_candidates_, pc, call,
    evolveVars, pickVars, historyVars>>

passVars == <<graph, pass_pc, node_i, div_n, div_a, div_b, rewritten, cnt>>

vars == <<searchVars, passVars>>

\* evolution_eps_greedy as a fraction n/d; the values are exact as floats.
EpsGreedyValues == {[n |-> 0, d |-> 1], [n |-> 1, d |-> 2], [n |-> 1, d |-> 1]}

TuningOptions ==
  [evolution_init_population_num : 0..MaxPopulation,
   evolution_pick_database_topk : 0..MaxRecords,
   evolution_cross_over_num : 0..MaxCrossOver,
   num_samples_per_iteration : 0..MaxSamples,
   evolution_eps_greedy : EpsGreedyValues]

\* SeedStates of a constructor that does not take its state from the seed alone.
SeedStatesUnseeded(seed) == {NormalizeState(seed), NormalizeState(seed + 1)}

\* rand_seed_(utils::LinearRandomEngine::NormalizeState(rand_seed)): the
\* states the constructor may give rand_seed_ for a seed; it is one state.
SeedStates(seed) == {NormalizeState(seed)}

\* The constructor: rand_seed_ is the normalized seed, advanced by the fork
\* that seeds the search space; no call was made yet.
Constructed ==
  /\ \E state \in SeedStates(rand_seed) :
       /\ rand_seed_ = NextState(state)
       /\ search_space_ = ForkRandomState(state)
  /\ run = 1
  /\ first_run = <<>>
  /\ visited_candidates_ = {}
  /\ pc = "idle"
  /\ call = "none"
  /\ population = <<>>
  /\ evolution = <<>>
  /\ cross_i = 0
  /\ first_rand_idx = 0
  /\ second_rand_idx = 0
  /\ mutate_i = 0
  /\ evolution_with_cost = <<>>
  /\ picked_bests = <<>>
  /\ random_init = <<>>
  /\ result = <<>>
  /\ best_idx = 0
  /\ rand_idx = 0
  /\ deduplicated_cnt = 0
  /\ ncalls = 0
  /\ returned = <<>>
  /\ visited_at_entry = {}
  /\ seed_at_evolve = 0
  /\ scored = <<>>
  /\ parents = <<>>
  /\ slot_from = <<>>
  /\ draws = <<>>

\* No graph is handed to ReduceSplitPass.
NoGraph ==
  /\ graph = <<>>
  /\ pass_pc = "idle"
  /\ node_i = 0
  /\ div_n = 0
  /\ div_a = 0
  /\ div_b = 0
  /\ rewritten = <<>>
  /\ cnt = 0

\* The search constructed for a task whose records replay to modules of the
\* task's shape, with mutation rules that do not throw.
Init ==
  /\ options \in TuningOptions
  /\ database_ \in {DatabaseOf(0), DatabaseOf(MaxRecords)}
  /\ rand_seed \in {0, MaxSeed}
  /\ mutate_throws = {}
  /\ Constructed
  /\ NoGraph

RECURSIVE ReplayRecords(_, _, _)
ReplayRecords(records, state, acc) ==
  IF records = <<>>
  THEN [states |-> acc, rand_seed |-> state]
  ELSE ReplayRecords(
         Tail(records), NextState(state),
         Append(acc, SearchState(ReplayWithProto(Head(records).trace), ForkRandomState(state),
                                 Head(records).predicted_cost, "database")))

\* One state per record of GetTopK, in record order, each with a forked engine
\* and the record's predicted cost.
GetTopKCandidatesFromDatabase(topk, state) ==
  ReplayRecords(GetTopK(database_, topk), state, <<>>)

\* int init_num = options.evolution_init_population_num - topk_from_database.size()
InitNum(topk_from_database) ==
  options.evolution_init_population_num - Len(topk_from_database)

InitSketch(num, strategy) == GenerateSketches(num, strategy, search_space_)

\* The log of draws after n more draws of one kind: consecutive draws of one
\* kind make one entry.
Drawn(log, kind, n) ==
  IF n <= 0 \/ (log # <<>> /\ log[Len(log)] = kind) THEN log ELSE Append(log, kind)

\* InitSketch(init_num, "rule_prune")
PopulationSketchStrategy == "rule_prune"

\* SearchModuleExprBests up to its call of Evolve; SearchModuleExprEpsGreedy
\* begins with the same steps.
SearchModuleExprBests(entry) ==
  /\ pc = "idle"
  /\ ncalls < MaxCalls
  /\ run = 2 => entry = first_run[ncalls + 1].call
  /\ LET topk_from_database ==
           GetTopKCandidatesFromDatabase(options.evolution_pick_database_topk, rand_seed_)
         init_sketch == InitSketch(InitNum(topk_from_database.states), PopulationSketchStrategy)
     IN /\ population' = topk_from_database.states \o init_sketch.states
        /\ rand_seed_' = topk_from_database.rand_seed
        /\ search_space_' = init_sketch.rand_seed
        /\ seed_at_evolve' = topk_from_database.rand_seed
        /\ draws' = Drawn(Drawn(<<>>, "replay", Len(topk_from_database.states)),
                          PopulationSketchStrategy, Len(init_sketch.states))
  /\ call' = entry
  /\ pc' = "Evolve"
  /\ evolution' = <<>>
  /\ cross_i' = 0
  /\ mutate_i' = 0
  /\ evolution_with_cost' = <<>>
  /\ picked_bests' = <<>>
  /\ scored' = <<>>
  /\ parents' = <<>>
  /\ slot_from' = <<>>
  /\ UNCHANGED <<passVars, inputVars, runVars, visited_candidates_, first_rand_idx, second_rand_idx, pickVars,
                 ncalls, returned, visited_at_entry>>

\* EmptyGeneration with the early return left out.
EmptyGenerationIgnored(generation_num) == FALSE

\* if (generation_num == 0) return std::vector<SearchState>();
EmptyGeneration(generation_num) == generation_num = 0

EvolveBegin ==
  /\ pc = "Evolve"
  /\ IF EmptyGeneration(Len(population))
     THEN /\ picked_bests' = <<>>
          /\ pc' = "EvolveDone"
          /\ UNCHANGED evolution
     ELSE /\ evolution' = population
          /\ pc' = "CrossOverLoop"
          /\ UNCHANGED picked_bests
  /\ UNCHANGED <<passVars, inputVars, runVars, rand_seed_, search_space_, visited_candidates_, call, population,
                 cross_i, first_rand_idx, second_rand_idx, mutate_i, evolution_with_cost,
                 pickVars, historyVars>>

\* ParentBound taken from the growing evolution vector.
ParentBoundEvolution(generation_num, evolution_size) == evolution_size

\* The exclusive upper bound of the parent indices: generation_num, the size
\* of the population at entry.
ParentBound(generation_num, evolution_size) == generation_num

EvolveSampleParents ==
  /\ pc = "CrossOverLoop"
  /\ cross_i < options.evolution_cross_over_num
  /\ LET bound == ParentBound(Len(population), Len(evolution))
     IN /\ first_rand_idx' = SampleUniformInt(0, bound, rand_seed_)
        /\ second_rand_idx' = SampleUniformInt(0, bound, NextState(rand_seed_))
  /\ rand_seed_' = NextState(NextState(rand_seed_))
  /\ draws' = Drawn(draws, "parent", 2)
  /\ pc' = "Resample"
  /\ UNCHANGED <<passVars, inputVars, runVars, search_space_, visited_candidates_, call, population, evolution,
                 cross_i, mutate_i, evolution_with_cost, picked_bests, pickVars, ncalls,
                 returned, visited_at_entry, seed_at_evolve, scored, parents, slot_from>>

\* while (first_rand_idx == second_rand_idx)
Resampling(first, second) == first = second

EvolveResample ==
  /\ pc = "Resample"
  /\ Resampling(first_rand_idx, second_rand_idx)
  /\ second_rand_idx' =
       SampleUniformInt(0, ParentBound(Len(population), Len(evolution)), rand_seed_)
  /\ rand_seed_' = NextState(rand_seed_)
  /\ draws' = Drawn(draws, "parent", 1)
  /\ UNCHANGED <<passVars, inputVars, runVars, search_space_, visited_candidates_, pc, call, population, evolution,
                 cross_i, first_rand_idx, mutate_i, evolution_with_cost, picked_bests,
                 pickVars, ncalls, returned, visited_at_entry, seed_at_evolve, scored, parents,
                 slot_from>>

\* CrossOverDie with three sides.
CrossOverDieThreeSided(state) == SampleUniformInt(0, 3, state)

\* utils::SampleUniformInt(0, 2, &rand_seed_): the die tossed for a position.
CrossOverDie(state) == SampleUniformInt(0, 2, state)

RECURSIVE CrossOverExprs(_, _, _, _)
\* for each position: SampleUniformInt(0, 2, &rand_seed_) == 0 takes the
\* father's expression, any other value the mother's.
CrossOverExprs(father_exprs, mother_exprs, state, acc) ==
  IF Len(acc) >= Len(father_exprs)
  THEN [exprs |-> acc, rand_seed |-> state]
  ELSE LET at == Len(acc) + 1
       IN CrossOverExprs(
            father_exprs, mother_exprs, NextState(state),
            Append(acc, IF CrossOverDie(state) = 0
                        THEN father_exprs[at] ELSE mother_exprs[at]))

\* CrossOverCheck with CHECK_LE for CHECK_EQ.
CrossOverCheckAtMost(state1, state2) == Len(state1.exprs) <= Len(state2.exprs)

\* CHECK_EQ(father_exprs.size(), mother_exprs.size())
CrossOverCheck(state1, state2) == Len(state1.exprs) = Len(state2.exprs)

\* ChildForkFrom taking the father's engine.
ChildForkFromFather(own, father) == father

\* The engine the child's state is forked from: utils::ForkRandomState(&rand_seed_).
ChildForkFrom(own, father) == own

\* CrossOver(state1, state2) past its CHECK_EQ: the child, unscored, with a
\* forked engine, and rand_seed_ after the draws.
CrossOver(state1, state2, state) ==
  LET cross == CrossOverExprs(state1.exprs, state2.exprs, state, <<>>)
  IN [state |-> SearchState(cross.exprs,
                            ForkRandomState(ChildForkFrom(cross.rand_seed, state1.rand)),
                            NOT_INIT, "crossover"),
      rand_seed |-> NextState(cross.rand_seed)]

\* The vector the parents are taken from: population, not evolution.
ParentPool(pop, evo) == pop

EvolveCrossOver ==
  /\ pc = "Resample"
  /\ ~Resampling(first_rand_idx, second_rand_idx)
  /\ LET pool == ParentPool(population, evolution)
         father == pool[first_rand_idx + 1]
         mother == pool[second_rand_idx + 1]
     IN IF CrossOverCheck(father, mother)
        THEN LET child == CrossOver(father, mother, rand_seed_)
             IN /\ evolution' = Append(evolution, child.state)
                /\ rand_seed_' = child.rand_seed
                /\ parents' = Append(parents, [first |-> first_rand_idx,
                                               second |-> second_rand_idx,
                                               father |-> father, mother |-> mother,
                                               child |-> child.state,
                                               seed |-> rand_seed_])
                /\ draws' = Drawn(Drawn(draws, "die", Len(father.exprs)), "child", 1)
                /\ cross_i' = cross_i + 1
                /\ pc' = "CrossOverLoop"
        ELSE /\ pc' = "Fatal"
             /\ UNCHANGED <<evolution, rand_seed_, parents, cross_i, draws>>
  /\ UNCHANGED <<passVars, inputVars, runVars, search_space_, visited_candidates_, call, population,
                 first_rand_idx, second_rand_idx, mutate_i, evolution_with_cost, picked_bests,
                 pickVars, ncalls, returned, visited_at_entry, seed_at_evolve, scored,
                 slot_from>>

\* utils::SizedMultiSet<SearchState> evolution_with_cost(ret_num)
EvolveMutateBegin ==
  /\ pc = "CrossOverLoop"
  /\ ~(cross_i < options.evolution_cross_over_num)
  /\ evolution_with_cost' = <<>>
  /\ mutate_i' = 0
  /\ pc' = "MutateLoop"
  /\ UNCHANGED <<passVars, inputVars, runVars, rand_seed_, search_space_, visited_candidates_, call, population,
                 evolution, cross_i, first_rand_idx, second_rand_idx, picked_bests, pickVars,
                 historyVars>>

\* RetNum with the arguments of Evolve swapped.
RetNumCrossOver == options.evolution_cross_over_num

\* The capacity of evolution_with_cost: ret_num, which the callers set to
\* options.num_samples_per_iteration.
RetNum == options.num_samples_per_iteration

\* MutateLoopRuns stopping one element early.
MutateLoopSkipsLast(i, evolution_size) == i + 1 < evolution_size

\* for (size_t i = 0; i < evolution.size(); ++i)
MutateLoopRuns(i, evolution_size) == i < evolution_size

\* A mutation rule of the space throws while it rewrites the module.
MutateThrows(state) == Fingerprint(state) \in mutate_throws

\* One iteration of the mutation loop.  The call of GetScheduleMutate stands
\* in no try block, in Evolve or in its callers: what it throws leaves the
\* call of the search.
EvolveMutate ==
  /\ pc = "MutateLoop"
  /\ MutateLoopRuns(mutate_i, Len(evolution))
  /\ IF MutateThrows(evolution[mutate_i + 1])
     THEN /\ pc' = "Thrown"
          /\ UNCHANGED <<evolution_with_cost, search_space_, scored, draws, mutate_i>>
     ELSE LET mutated == GetScheduleMutate(evolution[mutate_i + 1], search_space_)
          IN /\ evolution_with_cost' = Push(evolution_with_cost, mutated.state, RetNum)
             /\ search_space_' = mutated.rand_seed
             /\ scored' = Append(scored, mutated.state)
             /\ draws' = Drawn(draws, "mutate", Len(evolution[mutate_i + 1].exprs))
             /\ mutate_i' = mutate_i + 1
             /\ pc' = pc
  /\ UNCHANGED <<passVars, inputVars, runVars, rand_seed_, visited_candidates_, call, population, evolution,
                 cross_i, first_rand_idx, second_rand_idx, picked_bests, pickVars, ncalls,
                 returned, visited_at_entry, seed_at_evolve, parents, slot_from>>

EvolveReturn ==
  /\ pc = "MutateLoop"
  /\ ~MutateLoopRuns(mutate_i, Len(evolution))
  /\ picked_bests' = ReturnAsContainer(evolution_with_cost)
  /\ pc' = "EvolveDone"
  /\ UNCHANGED <<passVars, inputVars, runVars, rand_seed_, search_space_, visited_candidates_, call, population,
                 evolution, cross_i, first_rand_idx, second_rand_idx, mutate_i,
                 evolution_with_cost, pickVars, historyVars>>

\* SearchModuleExprBests returns what Evolve returned.
SearchModuleExprBestsReturn ==
  /\ pc = "EvolveDone"
  /\ call = "SearchModuleExprBests"
  /\ result' = picked_bests
  /\ pc' = "Return"
  /\ UNCHANGED <<passVars, inputVars, runVars, rand_seed_, search_space_, visited_candidates_, call, evolveVars,
                 random_init, best_idx, rand_idx, deduplicated_cnt, historyVars>>

\* What the read of element 0 of an empty vector may give: the behaviour is
\* undefined; the process is killed, or the bytes read are taken for a state.
UndefinedReads == {"killed", "garbage"}

\* The state made of bytes that are no element of the vector.
GarbageState == SearchState(<<>>, 0, NOT_INIT, "garbage")

\* SearchModuleExpr: return SearchModuleExprBests(options)[0], with no test of
\* the size of the vector.
SearchModuleExprReturn ==
  /\ pc = "EvolveDone"
  /\ call = "SearchModuleExpr"
  /\ IF picked_bests # <<>>
     THEN /\ result' = <<picked_bests[1]>>
          /\ pc' = "Return"
     ELSE \E read \in UndefinedReads :
            /\ result' = IF read = "garbage" THEN <<GarbageState>> ELSE result
            /\ pc' = IF read = "garbage" THEN "Return" ELSE "Fatal"
  /\ UNCHANGED <<passVars, inputVars, runVars, rand_seed_, search_space_, visited_candidates_, call, evolveVars,
                 random_init, best_idx, rand_idx, deduplicated_cnt, historyVars>>

\* NumRands rounded up instead of truncated.
NumRandsRoundedUp(num, eps_greedy) == (num * eps_greedy.n + eps_greedy.d - 1) \div eps_greedy.d

\* int num_rands = num * eps_greedy: the float product, truncated to int.
NumRands(num, eps_greedy) == (num * eps_greedy.n) \div eps_greedy.d

\* int num_bests = num - num_rands
NumBests(num, eps_greedy) == num - NumRands(num, eps_greedy)

\* size() < n with size a size_t and n an int: n is converted to size_t, so a
\* negative n compares as a huge value.
SizeLess(size, n) == IF n < 0 THEN TRUE ELSE size < n

\* int random_num = options.evolution_init_population_num - options.evolution_pick_database_topk
RandomNum == options.evolution_init_population_num - options.evolution_pick_database_topk

\* RandomSketchStrategy naming the strategy of the population's sketches.
RandomSketchStrategyRulePrune == "rule_prune"

\* InitSketch(random_num, "random_prune")
RandomSketchStrategy == "random_prune"

\* SearchModuleExprEpsGreedy after SearchModuleExprBests returned: the random
\* sketches are generated and PickNextGenerationEpsGreedy is entered.
PickNextGenerationEpsGreedy ==
  /\ pc = "EvolveDone"
  /\ call = "SearchModuleExprEpsGreedy"
  /\ LET sketches == InitSketch(RandomNum, RandomSketchStrategy)
     IN /\ random_init' = sketches.states
        /\ search_space_' = sketches.rand_seed
        /\ draws' = Drawn(draws, RandomSketchStrategy, Len(sketches.states))
  /\ result' = <<>>
  /\ deduplicated_cnt' = 0
  /\ best_idx' = 0
  /\ rand_idx' = 0
  /\ visited_at_entry' = visited_candidates_
  /\ slot_from' = <<>>
  /\ pc' = "PickLoop"
  /\ UNCHANGED <<passVars, inputVars, runVars, rand_seed_, visited_candidates_, call, evolveVars, ncalls,
                 returned, seed_at_evolve, scored, parents>>

\* PickLoopRuns with <= for <.
PickLoopRunsOnceMore == SizeLess(Len(result), options.num_samples_per_iteration + 1)

\* while (result.size() < num)
PickLoopRuns == SizeLess(Len(result), options.num_samples_per_iteration)

\* PickSupply without the last else-if: bests is not used once randoms ran out.
PickSupplyNoFallback(result_size, num_bests, best, bests_size, rnd, randoms_size) ==
  IF SizeLess(result_size, num_bests) /\ best < bests_size THEN "bests"
  ELSE IF rnd < randoms_size THEN "randoms"
  ELSE "none"

\* The supply the next candidate is taken from: the if / else if chain of the
\* loop body; "none" is its final else (break).
PickSupply(result_size, num_bests, best, bests_size, rnd, randoms_size) ==
  IF SizeLess(result_size, num_bests) /\ best < bests_size THEN "bests"
  ELSE IF rnd < randoms_size THEN "randoms"
  ELSE IF best < bests_size THEN "bests"
  ELSE "none"

Supply ==
  PickSupply(Len(result),
             NumBests(options.num_samples_per_iteration, options.evolution_eps_greedy),
             best_idx, Len(picked_bests), rand_idx, Len(random_init))

\* Deduplicate with the test of the visited set left out.
DeduplicateNever(selected, visited) == TRUE

\* if (!visited_candidates_.count(selected))
Deduplicate(selected, visited) == Fingerprint(selected) \notin visited

\* VisitedInsert with the insertion left out.
VisitedInsertNothing(visited, selected) == visited

\* visited_candidates_.insert(selected)
VisitedInsert(visited, selected) == visited \cup {Fingerprint(selected)}

\* One iteration of the loop that selects a candidate.
PickStep ==
  /\ pc = "PickLoop"
  /\ PickLoopRuns
  /\ Supply # "none"
  /\ LET from == Supply
         idx == IF from = "bests" THEN best_idx ELSE rand_idx
         selected == IF from = "bests" THEN picked_bests[idx + 1] ELSE random_init[idx + 1]
     IN /\ best_idx' = IF from = "bests" THEN best_idx + 1 ELSE best_idx
        /\ rand_idx' = IF from = "randoms" THEN rand_idx + 1 ELSE rand_idx
        /\ IF Deduplicate(selected, visited_candidates_)
           THEN /\ visited_candidates_' = VisitedInsert(visited_candidates_, selected)
                /\ result' = Append(result, selected)
                /\ slot_from' = Append(slot_from, [from |-> from, idx |-> idx])
                /\ UNCHANGED deduplicated_cnt
           ELSE /\ deduplicated_cnt' = deduplicated_cnt + 1
                /\ UNCHANGED <<visited_candidates_, result, slot_from>>
  /\ UNCHANGED <<passVars, inputVars, runVars, rand_seed_, search_space_, pc, call, evolveVars, random_init,
                 ncalls, returned, visited_at_entry, seed_at_evolve, scored, parents, draws>>

\* The loop ends: its condition fails, or both supplies are used up (break).
PickReturn ==
  /\ pc = "PickLoop"
  /\ ~PickLoopRuns \/ Supply = "none"
  /\ pc' = "Return"
  /\ UNCHANGED <<passVars, inputVars, runVars, rand_seed_, search_space_, visited_candidates_, call, evolveVars,
                 pickVars, historyVars>>

\* The call hands its result to the caller.
Return ==
  /\ pc = "Return"
  /\ ncalls' = ncalls + 1
  /\ returned' = Append(returned, [call |-> call, states |-> result])
  /\ pc' = "idle"
  /\ UNCHANGED <<passVars, inputVars, runVars, rand_seed_, search_space_, visited_candidates_, call, evolveVars,
                 pickVars, visited_at_entry, seed_at_evolve, scored, parents, slot_from, draws>>

Next ==
  \/ SearchModuleExprBests("SearchModuleExprBests")
  \/ SearchModuleExprBests("SearchModuleExprEpsGreedy")
  \/ EvolveBegin
  \/ EvolveSampleParents
  \/ EvolveResample
  \/ EvolveCrossOver
  \/ EvolveMutateBegin
  \/ EvolveMutate
  \/ EvolveReturn
  \/ SearchModuleExprBestsReturn
  \/ PickNextGenerationEpsGreedy
  \/ PickStep
  \/ PickReturn
  \/ Return

Spec == Init /\ [][Next]_vars

\* A second run of the program: the search is constructed again from the same
\* seed, task, database and cost model, and the calls of the first run are
\* issued again.
Reconstruct ==
  /\ pc = "idle"
  /\ run = 1
  /\ ncalls = MaxCalls
  /\ run' = 2
  /\ first_run' = returned
  /\ \E state \in SeedStates(rand_seed) :
       /\ rand_seed_' = NextState(state)
       /\ search_space_' = ForkRandomState(state)
  /\ visited_candidates_' = {}
  /\ ncalls' = 0
  /\ returned' = <<>>
  /\ UNCHANGED <<passVars, inputVars, pc, call, evolveVars, pickVars, visited_at_entry, seed_at_evolve,
                 scored, parents, slot_from, draws>>

NextRuns == Next \/ Reconstruct

\* The initial states whose database holds records, the warm starts asked
\* for being none or all of them.
InitWarm ==
  /\ Init
  /\ database_ = DatabaseOf(MaxRecords)
  /\ options.evolution_pick_database_topk \in {0, MaxRecords}

SpecRuns == InitWarm /\ [][NextRuns]_vars

\* The modules on which a buggy mutation rule throws.
ThrowingModules == {SketchSpace[1]}

\* The search constructed for a task whose database holds a stale record,
\* with mutation rules that throw on no module or on some.
InitFaults ==
  /\ options \in TuningOptions
  /\ database_ = DatabaseStale(MaxRecords)
  /\ rand_seed = MaxSeed
  /\ mutate_throws \in {{}, ThrowingModules}
  /\ Constructed
  /\ NoGraph

\* The three entry points of the search.
NextEntries ==
  \/ Next
  \/ SearchModuleExprBests("SearchModuleExpr")
  \/ SearchModuleExprReturn

SpecFaults == InitFaults /\ [][NextEntries]_vars

\* ------------------------------------------------------------ ReduceSplitPass
\* common::DefaultNVGPUTarget().max_num_threads(): the model takes a target of
\* one thread, so that small shapes are large enough to be split.
MAX_NUM_THREADS == 1

\* constexpr int MAX_ITER_PER_THREAD = 32
MAX_ITER_PER_THREAD == 32

reduce_op_type ==
  {"reduce_sum", "reduce_mean", "reduce_max", "reduce_min", "reduce_all", "reduce_any"}

IsReduceOp(node) == node.op \in reduce_op_type

RECURSIVE Numel(_)
\* std::accumulate(begin, end, 1, std::multiplies<int>())
Numel(shape) == IF shape = <<>> THEN 1 ELSE Head(shape) * Numel(Tail(shape))

RECURSIVE ReducedShape(_, _, _, _)
\* The dimensions from position k (from 0) on: a reduced dimension is dropped,
\* or kept with extent 1 under keep_dim.
ReducedShape(in_shape, dim, keep_dim, k) ==
  IF k >= Len(in_shape) THEN <<>>
  ELSE (IF k \in dim THEN (IF keep_dim THEN <<1>> ELSE <<>>) ELSE <<in_shape[k + 1]>>)
       \o ReducedShape(in_shape, dim, keep_dim, k + 1)

\* The shape inferred for the output of a reduce operator; a reduce of every
\* dimension without keep_dim gives the shape [1].
InferShape(in_shape, dim, keep_dim) ==
  LET out == ReducedShape(in_shape, dim, keep_dim, 0)
  IN IF out = <<>> THEN <<1>> ELSE out

\* An operator node with the shapes of its input and of its output; dim is
\* the set of the values of the attribute "dim".
Node(op, in_shape, dim, keep_dim, out_shape) ==
  [op |-> op, in_shape |-> in_shape, dim |-> dim, keep_dim |-> keep_dim,
   out_shape |-> out_shape]

Shapes == UNION {[1..rank -> 1..MaxDim] : rank \in 1..MaxRank}

\* The reduce nodes over an input shape: every non-empty set of dimensions of
\* the shape, with and without keep_dim.
ReduceNodes(in_shape) ==
  {Node("reduce_sum", in_shape, dim, keep_dim, InferShape(in_shape, dim, keep_dim)) :
     dim \in (SUBSET (0..(Len(in_shape) - 1))) \ {{}}, keep_dim \in BOOLEAN}

\* A node that is no reduce.
ReluNode ==
  LET shape == [k \in 1..MaxRank |-> MaxDim]
  IN Node("relu", shape, {}, FALSE, shape)

\* A reduce_max over every dimension but the last of the largest shape.
LargeReduceNode ==
  LET shape == [k \in 1..MaxRank |-> MaxDim]
      dim == 0..(MaxRank - 2)
  IN Node("reduce_max", shape, dim, FALSE, InferShape(shape, dim, FALSE))

\* The graphs handed to the pass whose first reduce node reads in_shape: a
\* reduce node, alone or followed by another node, or a node that is no reduce.
Graphs(in_shape) ==
  {<<node>> : node \in ReduceNodes(in_shape) \cup {ReluNode}}
  \cup {<<node, next>> : node \in ReduceNodes(in_shape), next \in {ReluNode, LargeReduceNode}}

\* Apply is entered with a graph; the search plays no part.
InitPass ==
  /\ options = [evolution_init_population_num |-> 0, evolution_pick_database_topk |-> 0,
                evolution_cross_over_num |-> 0, num_samples_per_iteration |-> 0,
                evolution_eps_greedy |-> [n |-> 0, d |-> 1]]
  /\ database_ = DatabaseOf(0)
  /\ rand_seed = 0
  /\ mutate_throws = {}
  /\ Constructed
  /\ \E in_shape \in Shapes : graph \in Graphs(in_shape)
  /\ pass_pc = "Loop"
  /\ node_i = 0
  /\ div_n = 0
  /\ div_a = 0
  /\ div_b = 0
  /\ rewritten = <<>>
  /\ cnt = 0

\* all_preceding_dim_reduced: every dimension but the last is found in dims.
AllPrecedingDimReduced(in_shape, dims) ==
  \A i \in 0..(Len(in_shape) - 2) : i \in dims

\* A square root that is rounded up.
SqrtRoundedUp(n) == CHOOSE r \in 0..n : (r = 0 \/ (r - 1) * (r - 1) < n) /\ n <= r * r

\* int a = sqrt(n): the square root, truncated.
Sqrt(n) == CHOOSE r \in 0..n : r * r <= n /\ n < (r + 1) * (r + 1)

\* continue: the node is left in the graph as it is.
NodeKept(node) ==
  /\ rewritten' = Append(rewritten, <<node>>)
  /\ node_i' = node_i + 1
  /\ UNCHANGED <<pass_pc, div_n, div_a, div_b, cnt>>

\* The body of the loop over the nodes, up to the call of DivideToClosetNum.
ApplyNode ==
  /\ pass_pc = "Loop"
  /\ node_i < Len(graph)
  /\ LET node == graph[node_i + 1]
         in_shape == node.in_shape
         numel == Numel(in_shape)
         reduce_numel == Numel(SubSeq(in_shape, 1, Len(in_shape) - 1))
     IN IF ~IsReduceOp(node)
        THEN NodeKept(node)
        ELSE IF ~(Len(in_shape) > 1) \/ ~(reduce_numel > 0)
        THEN /\ pass_pc' = "Fatal"
             /\ UNCHANGED <<node_i, div_n, div_a, div_b, rewritten, cnt>>
        ELSE IF \/ ~AllPrecedingDimReduced(in_shape, node.dim)
                \/ numel <= MAX_NUM_THREADS * MAX_ITER_PER_THREAD
        THEN NodeKept(node)
        ELSE /\ div_n' = reduce_numel
             /\ div_a' = Sqrt(reduce_numel)
             /\ div_b' = reduce_numel \div Sqrt(reduce_numel)
             /\ pass_pc' = "Divide"
             /\ UNCHANGED <<node_i, rewritten, cnt>>
  /\ UNCHANGED <<searchVars, graph>>

\* One iteration of the loop of DivideToClosetNum.
DivideStep ==
  /\ pass_pc = "Divide"
  /\ div_a * div_b # div_n
  /\ LET next_a == IF div_a * div_b < div_n THEN div_a + 1 ELSE div_a - 1
     IN /\ div_a' = next_a
        /\ div_b' = div_n \div next_a
  /\ UNCHANGED <<searchVars, graph, pass_pc, node_i, div_n, rewritten, cnt>>

\* DivideToClosetNum returns {a, b}; the node is replaced by reshape, reduce,
\* reduce, reshape.
ApplySplit ==
  /\ pass_pc = "Divide"
  /\ div_a * div_b = div_n
  /\ LET node == graph[node_i + 1]
         in_shape == node.in_shape
         last == in_shape[Len(in_shape)]
         reshape0_shape == <<div_a, div_b, last>>
         reduce0_shape == IF node.keep_dim THEN <<1, div_b, last>> ELSE <<div_b, last>>
         reduce1_shape == IF node.keep_dim THEN <<1, 1, last>> ELSE <<last>>
         reshape0 == Node("reshape", in_shape, {}, FALSE, reshape0_shape)
         reduce0 == Node(node.op, reshape0_shape, {0}, node.keep_dim, reduce0_shape)
         reduce1 == Node(node.op, reduce0_shape, IF node.keep_dim THEN {0, 1} ELSE {0},
                         node.keep_dim, reduce1_shape)
         reshape1 == Node("reshape", reduce1_shape, {}, FALSE, node.out_shape)
     IN rewritten' = Append(rewritten, <<reshape0, reduce0, reduce1, reshape1>>)
  /\ cnt' = cnt + 1
  /\ node_i' = node_i + 1
  /\ pass_pc' = "Loop"
  /\ UNCHANGED <<searchVars, graph, div_n, div_a, div_b>>

\* return cnt
ApplyReturn ==
  /\ pass_pc = "Loop"
  /\ ~(node_i < Len(graph))
  /\ pass_pc' = "Done"
  /\ UNCHANGED <<searchVars, graph, node_i, div_n, div_a, div_b, rewritten, cnt>>

NextPass ==
  \/ ApplyNode
  \/ DivideStep
  \/ ApplySplit
  \/ ApplyReturn

SpecPass == InitPass /\ [][NextPass]_vars

\* ---------------------------------------------------------------------------
\* DivideToClosetNum on its own: called with every n of 1..MaxNumel.
\* ---------------------------------------------------------------------------

\* DivideToClosetNum is about to be called with n; no graph is involved.
InitDivide ==
  /\ options = [evolution_init_population_num |-> 0, evolution_pick_database_topk |-> 0,
                evolution_cross_over_num |-> 0, num_samples_per_iteration |-> 0,
                evolution_eps_greedy |-> [n |-> 0, d |-> 1]]
  /\ database_ = DatabaseOf(0)
  /\ rand_seed = 0
  /\ mutate_throws = {}
  /\ Constructed
  /\ graph = <<>>
  /\ pass_pc = "Call"
  /\ node_i = 0
  /\ div_n \in 1..MaxNumel
  /\ div_a = 0
  /\ div_b = 0
  /\ rewritten = <<>>
  /\ cnt = 0

\* int a = sqrt(n); int b = n / a;
DivideEnter ==
  /\ pass_pc = "Call"
  /\ div_a' = Sqrt(div_n)
  /\ div_b' = div_n \div Sqrt(div_n)
  /\ pass_pc' = "Divide"
  /\ UNCHANGED <<searchVars, graph, node_i, div_n, rewritten, cnt>>

\* return {a, b}, to a caller that is not Apply.
DivideReturn ==
  /\ pass_pc = "Divide"
  /\ graph = <<>>
  /\ div_a * div_b = div_n
  /\ pass_pc' = "Returned"
  /\ UNCHANGED <<searchVars, graph, node_i, div_n, div_a, div_b, rewritten, cnt>>

NextDivide ==
  \/ DivideEnter
  \/ DivideStep
  \/ DivideReturn

\* The function is sequential code: a step that can be taken is taken.
FairSpecDivide == InitDivide /\ [][NextDivide]_vars /\ WF_vars(NextDivide)

\* ------------------------------------------------------------ properties
EpsGreedy == "SearchModuleExprEpsGreedy"

Num == options.num_samples_per_iteration

\* The pick of the running eps-greedy call has begun / has ended.
InPick == call = EpsGreedy /\ pc \in {"PickLoop", "Return"}

PickDone == call = EpsGreedy /\ pc = "Return"

\* A configuration the specification admits (init_population_num > 0), asking
\* for no more warm starts than the population holds.
ValidConfiguration ==
  /\ options.evolution_init_population_num > 0
  /\ options.evolution_pick_database_topk <= options.evolution_init_population_num

RECURSIVE Flatten(_)
Flatten(seqs) == IF seqs = <<>> THEN <<>> ELSE Head(seqs) \o Flatten(Tail(seqs))

FingerprintSeq(states) == [k \in 1..Len(states) |-> Fingerprint(states[k])]

\* The fingerprints the eps-greedy calls returned so far, in order, those the
\* running pick has selected included.
ReturnedFingerprints ==
  Flatten([k \in 1..Len(returned) |->
             IF returned[k].call = EpsGreedy THEN FingerprintSeq(returned[k].states)
             ELSE <<>>])
  \o (IF call = EpsGreedy /\ pc = "PickLoop" THEN FingerprintSeq(result) ELSE <<>>)

Distinct(s) == \A a, b \in 1..Len(s) : a # b => s[a] # s[b]

\* C1: with the persistent visited set, no two states returned by the
\* eps-greedy calls, in one call or in different calls, share a fingerprint.
C1_NoFingerprintReturnedTwice == Distinct(ReturnedFingerprints)

\* Two eps-greedy calls have returned states, and the second one skipped a
\* candidate that was already visited.
C1_Witness ==
  /\ Len(returned) = 2
  /\ \A k \in 1..2 : returned[k].call = EpsGreedy /\ returned[k].states # <<>>
  /\ deduplicated_cnt > 0

\* The fingerprints of the candidates of the running pick that were not
\* visited when it began.
FreshFingerprints ==
  (Fingerprints(picked_bests) \cup Fingerprints(random_init)) \ visited_at_entry

\* C2 as stated: the returned list has length min(num, |bests| + |randoms|).
C2_LengthIsMinOfSupplies ==
  (PickDone /\ ValidConfiguration) => Len(result) = Min(Num, Len(picked_bests) + Len(random_init))

\* C2, amended: the returned list has length min(num, the number of distinct
\* fingerprints among bests and randoms that were not visited before the
\* call), which is at most min(num, |bests| + |randoms|).
C2_LengthIsMinOfFresh ==
  PickDone =>
    /\ Len(result) = Min(Num, Cardinality(FreshFingerprints))
    /\ Len(result) <= Min(Num, Len(picked_bests) + Len(random_init))

\* A pick that returned states, but fewer than min(num, |bests| + |randoms|).
C2_Witness ==
  /\ PickDone
  /\ result # <<>>
  /\ Len(result) < Min(Num, Len(picked_bests) + Len(random_init))

\* The position of scored state k in ascending order of cost, equal costs in
\* insertion order.
StableRank(s, k) ==
  1 + Cardinality({j \in 1..Len(s) :
        \/ s[j].predicted_cost < s[k].predicted_cost
        \/ s[j].predicted_cost = s[k].predicted_cost /\ j < k})

StableSort(s) == [r \in 1..Len(s) |-> s[CHOOSE k \in 1..Len(s) : StableRank(s, k) = r]]

\* The n lowest-cost elements of s (all of s when it holds fewer).
LowestCost(s, n) == SubSeq(StableSort(s), 1, Min(Max(n, 0), Len(s)))

RECURSIVE TakenUpTo(_, _)
TakenUpTo(supply, n) ==
  IF n = 0 THEN <<>>
  ELSE IF slot_from[n].from = supply THEN Append(TakenUpTo(supply, n - 1), result[n])
  ELSE TakenUpTo(supply, n - 1)

\* The states of result taken from a supply ("bests" or "randoms"), in order.
TakenFrom(supply) == TakenUpTo(supply, Len(result))

NumBestsNow == NumBests(Num, options.evolution_eps_greedy)

NumRandsNow == NumRands(Num, options.evolution_eps_greedy)

\* The num_bests lowest-cost scored states exist, with pairwise distinct
\* fingerprints none of which was visited before the call.
TopBestsFresh ==
  LET top == LowestCost(scored, NumBestsNow)
  IN /\ Len(top) = NumBestsNow
     /\ Distinct(FingerprintSeq(top))
     /\ Fingerprints(top) \cap visited_at_entry = {}

\* C3 as stated: the states taken from bests are exactly the num - num_rand
\* lowest-cost elements of the scored evolution set, equal costs by insertion.
C3_BestsAreLowestCost ==
  (PickDone /\ ValidConfiguration) => TakenFrom("bests") = LowestCost(scored, NumBestsNow)

\* C3, amended: bests is the num lowest-cost elements of the scored evolution
\* set (equal costs by insertion); the states taken from it are, in that
\* order, the examined ones whose fingerprint was not visited yet; they begin
\* with exactly the num - num_rand lowest-cost elements when these exist with
\* pairwise distinct fingerprints not visited before the call, and are then
\* exactly those unless randoms ran out.
C3_BestsAreLowestCostNotVisited ==
  InPick =>
    /\ picked_bests = LowestCost(scored, Num)
    /\ \A k \in 1..Len(result) :
         slot_from[k].from = "bests" =>
           /\ slot_from[k].idx < best_idx
           /\ result[k] = picked_bests[slot_from[k].idx + 1]
           /\ Fingerprint(result[k]) \notin visited_at_entry
           /\ \A m \in 1..(k - 1) :
                slot_from[m].from = "bests" => slot_from[m].idx < slot_from[k].idx
    /\ \A b \in 0..(best_idx - 1) :
         \/ \E k \in 1..Len(result) : slot_from[k] = [from |-> "bests", idx |-> b]
         \/ Fingerprint(picked_bests[b + 1]) \in visited_at_entry \cup Fingerprints(result)
    /\ (PickDone /\ TopBestsFresh) =>
         /\ SubSeq(result, 1, NumBestsNow) = LowestCost(scored, NumBestsNow)
         /\ \/ TakenFrom("bests") = LowestCost(scored, NumBestsNow)
            \/ rand_idx = Len(random_init)

\* A second call whose visited set is not empty takes exactly the two or more
\* lowest-cost states from bests, two of the scored states having equal cost.
C3_Witness ==
  /\ PickDone
  /\ visited_at_entry # {}
  /\ NumBestsNow >= 2
  /\ TopBestsFresh
  /\ TakenFrom("bests") = LowestCost(scored, NumBestsNow)
  /\ \E a, b \in 1..Len(scored) : a # b /\ scored[a].predicted_cost = scored[b].predicted_cost

\* C4 as stated: the first num_best slots come from bests and the others from
\* randoms; with eps_greedy = 0 and an empty visited set the result is the
\* first num states of bests.
C4_SlotsByShare ==
  (PickDone /\ ValidConfiguration) =>
    /\ \A k \in 1..Len(result) :
         slot_from[k].from = IF k <= NumBestsNow THEN "bests" ELSE "randoms"
    /\ (options.evolution_eps_greedy.n = 0 /\ visited_at_entry = {}) =>
         result = SubSeq(picked_bests, 1, Min(Num, Len(picked_bests)))

\* Both supplies hold their share: the first num_bests states of bests have
\* pairwise distinct fingerprints that were not visited, and randoms holds
\* num_rands further fingerprints that were not visited.
SuppliesHoldShares ==
  LET top == SubSeq(picked_bests, 1, Min(NumBestsNow, Len(picked_bests)))
  IN /\ Len(top) = NumBestsNow
     /\ Distinct(FingerprintSeq(top))
     /\ Fingerprints(top) \cap visited_at_entry = {}
     /\ Cardinality(Fingerprints(random_init) \ (visited_at_entry \cup Fingerprints(top)))
          >= NumRandsNow

\* C4, amended: num_rand = floor(num * eps_greedy) and num_best = num -
\* num_rand; one of the first num_best slots is filled from randoms only when
\* bests is used up, a later slot from bests only when randoms is used up;
\* when both supplies hold their share of states not visited, the first
\* num_best slots are the first num_best states of bests and the other
\* num_rand slots come from randoms (eps_greedy = 0: the result is the first
\* num states of bests).
C4_SlotsByShareWhileSupplied ==
  InPick =>
    /\ NumRandsNow * options.evolution_eps_greedy.d <= Num * options.evolution_eps_greedy.n
    /\ Num * options.evolution_eps_greedy.n < (NumRandsNow + 1) * options.evolution_eps_greedy.d
    /\ NumBestsNow + NumRandsNow = Num
    /\ \A k \in 1..Len(result) :
         /\ (k <= NumBestsNow /\ slot_from[k].from = "randoms") =>
              /\ best_idx = Len(picked_bests)
              /\ \A m \in (k + 1)..Len(result) : slot_from[m].from = "randoms"
         /\ (k > NumBestsNow /\ slot_from[k].from = "bests") =>
              /\ rand_idx = Len(random_init)
              /\ \A m \in (k + 1)..Len(result) : slot_from[m].from = "bests"
    /\ (PickDone /\ SuppliesHoldShares) =>
         /\ Len(result) = Num
         /\ SubSeq(result, 1, NumBestsNow) = SubSeq(picked_bests, 1, NumBestsNow)
         /\ \A k \in 1..Len(result) :
              slot_from[k].from = IF k <= NumBestsNow THEN "bests" ELSE "randoms"

\* eps_greedy = 0.5 and num = 4: two states from bests, then two from randoms.
C4_Witness ==
  /\ PickDone
  /\ options.evolution_eps_greedy = [n |-> 1, d |-> 2]
  /\ Num = 4
  /\ SuppliesHoldShares
  /\ Len(TakenFrom("bests")) = 2
  /\ Len(TakenFrom("randoms")) = 2

\* Candidates of the running pick not examined yet.
Unexamined == (Len(picked_bests) - best_idx) + (Len(random_init) - rand_idx)

\* The scheduling of the calls: a step that can be taken is taken.
FairSpec == InitWarm /\ [][Next]_vars /\ WF_vars(Next)

\* C5: the selection loop terminates, and when it stops the result holds num
\* states or every element of bests and of randoms was examined; until then
\* a supply that ran out is replaced by the other one.
C5_PickLoopTerminates ==
  /\ [](PickDone => \/ Len(result) = Num
                    \/ best_idx = Len(picked_bests) /\ rand_idx = Len(random_init))
  /\ []((call = EpsGreedy /\ pc = "PickLoop" /\ Len(result) < Num) =>
          (Supply = "none" <=> Unexamined = 0))
  /\ [][(pc = "PickLoop" /\ pc' = "PickLoop") => Unexamined' < Unexamined]_vars
  /\ ((call = EpsGreedy /\ pc = "PickLoop") ~> PickDone)

\* bests ran out before its share was filled and randoms filled the result up
\* to num states.
C5_Witness ==
  /\ PickDone
  /\ Len(result) = Num
  /\ best_idx = Len(picked_bests)
  /\ \E k \in 1..Len(result) : k <= NumBestsNow /\ slot_from[k].from = "randoms"

\* C6: Evolve, entered with a non-empty population, finishes, after
\* cross_over_num crossovers and |population| + cross_over_num mutations (the
\* termination is stated for the configurations the specification admits).
C6_EvolveTerminates ==
  /\ [](pc = "EvolveDone" /\ population # <<>> =>
          /\ Len(parents) = options.evolution_cross_over_num
          /\ Len(scored) = Len(population) + options.evolution_cross_over_num)
  /\ ((pc = "Evolve" /\ population # <<>> /\ ValidConfiguration) ~> (pc = "EvolveDone"))

\* C8: each crossover takes its parents at two distinct indices of the
\* population Evolve was entered with; no parent is a crossover child.
C8_ParentsFromPopulation ==
  /\ pc = "Resample" =>
       /\ first_rand_idx \in 0..(Len(population) - 1)
       /\ second_rand_idx \in 0..(Len(population) - 1)
  /\ pc \in {"CrossOverLoop", "Resample", "MutateLoop", "EvolveDone"} =>
       \A k \in 1..Len(parents) :
         /\ parents[k].first # parents[k].second
         /\ parents[k].first \in 0..(Len(population) - 1)
         /\ parents[k].second \in 0..(Len(population) - 1)
         /\ parents[k].father = population[parents[k].first + 1]
         /\ parents[k].mother = population[parents[k].second + 1]
         /\ parents[k].father.origin # "crossover"
         /\ parents[k].mother.origin # "crossover"
         /\ evolution[Len(population) + k] = parents[k].child

\* Two crossovers were made, the second one after a child was appended.
C8_Witness ==
  /\ pc = "MutateLoop"
  /\ Len(parents) = 2
  /\ Len(evolution) = Len(population) + 2
  /\ parents[1].first # parents[2].first

\* The number of positions at which two modules differ.
Differences(a, b) == Cardinality({k \in 1..Len(a) : a[k] # b[k]})

\* Evolve mutates and scores, once and in order, every element of the expanded
\* set: the population followed by the children of the crossovers.
EvolveMutatesAll ==
  /\ evolution = population \o [k \in 1..Len(parents) |-> parents[k].child]
  /\ Len(scored) = Len(evolution)
  /\ \A k \in 1..Len(scored) :
       /\ Len(scored[k].exprs) = Len(evolution[k].exprs)
       /\ Differences(scored[k].exprs, evolution[k].exprs) <= 1
       /\ scored[k].predicted_cost = Predict(scored[k].exprs)

\* Evolve returns the lowest-cost mutated states in ascending order of cost:
\* every state left out costs at least as much as every state returned.
EvolveReturnsLowest ==
  /\ picked_bests = LowestCost(scored, Num)
  /\ \A k \in 1..(Len(picked_bests) - 1) :
       picked_bests[k].predicted_cost <= picked_bests[k + 1].predicted_cost
  /\ \A k \in 1..Len(scored) :
       StableRank(scored, k) > Num =>
         \A m \in 1..Len(picked_bests) :
           picked_bests[m].predicted_cost <= scored[k].predicted_cost

\* C9 as stated: Evolve mutates every element of the expanded set and returns
\* min(num_samples_per_iteration, |population| + cross_over_num) states, the
\* lowest-cost mutated states in ascending order.
C9_EvolveReturnsLowestCost ==
  pc = "EvolveDone" =>
    /\ EvolveMutatesAll
    /\ EvolveReturnsLowest
    /\ Len(picked_bests) = Min(Num, Len(population) + options.evolution_cross_over_num)

\* C9, amended: the count is that of a non-empty population, whose expanded
\* set holds |population| + cross_over_num states; for an empty population
\* Evolve returns no state.
C9_EvolveReturnsLowestCostOfNonEmpty ==
  pc = "EvolveDone" =>
    /\ EvolveMutatesAll
    /\ EvolveReturnsLowest
    /\ IF population # <<>>
       THEN /\ Len(evolution) = Len(population) + options.evolution_cross_over_num
            /\ Len(picked_bests) =
                 Min(Num, Len(population) + options.evolution_cross_over_num)
       ELSE picked_bests = <<>>

\* Evolve returned fewer states than it scored, two of the scored states
\* having equal cost, after a crossover.
C9_Witness ==
  /\ pc = "EvolveDone"
  /\ options.evolution_cross_over_num > 0
  /\ picked_bests # <<>>
  /\ Len(picked_bests) < Len(scored)
  /\ \E a, b \in 1..Len(scored) : a # b /\ scored[a].predicted_cost = scored[b].predicted_cost

\* C10: with an empty population the round returns an empty list and makes no
\* crossover, no mutation and no draw from rand_seed_.
C10_EmptyPopulationReturnsEmpty ==
  (population = <<>> /\ pc \notin {"idle", "Fatal"}) =>
    /\ pc \notin {"CrossOverLoop", "Resample", "MutateLoop"}
    /\ parents = <<>>
    /\ scored = <<>>
    /\ rand_seed_ = seed_at_evolve
    /\ pc \in {"EvolveDone", "PickLoop", "Return"} => picked_bests = <<>>
    /\ pc = "Return" => result = <<>>

\* A call with an empty population and crossovers asked for has returned.
C10_Witness ==
  /\ pc = "Return"
  /\ population = <<>>
  /\ options.evolution_cross_over_num > 0
  /\ Num > 0

Father == population[first_rand_idx + 1]

Mother == population[second_rand_idx + 1]

AtCrossOver == pc = "Resample" /\ ~Resampling(first_rand_idx, second_rand_idx)

\* C11: CrossOver on two parents whose modules hold different numbers of
\* expressions fails at once (the call is left at the fatal check), before any
\* draw from rand_seed_ and without a child: no child has parents of
\* different sizes, and nothing runs after the failure.
C11_MismatchedParentsFailFast ==
  /\ [][(AtCrossOver /\ Len(Father.exprs) # Len(Mother.exprs)) =>
          /\ pc' = "Fatal"
          /\ rand_seed_' = rand_seed_
          /\ draws' = draws
          /\ evolution' = evolution
          /\ parents' = parents]_vars
  /\ [][pc = "Fatal" => pc' = "Fatal"]_vars
  /\ [](\A k \in 1..Len(parents) :
          Len(parents[k].father.exprs) = Len(parents[k].mother.exprs))

\* The crossover of a stale record's module with a module of the task's shape
\* has failed, in a population of three with two crossovers asked for.
C11_Witness ==
  /\ pc = "Fatal"
  /\ Len(population) = 3
  /\ options.evolution_cross_over_num = 2
  /\ Len(Father.exprs) # Len(Mother.exprs)
  /\ evolution = population

\* init_population_num <= 0, or eps_greedy outside [0, 1].
InvalidConfiguration ==
  \/ options.evolution_init_population_num <= 0
  \/ options.evolution_eps_greedy.n < 0
  \/ options.evolution_eps_greedy.n > options.evolution_eps_greedy.d

\* C12: a round called with init_population_num <= 0 or with eps_greedy
\* outside [0, 1] is rejected with an error: the call does not return a list,
\* no candidate is returned and nothing is added to the visited set.
C12_InvalidConfigurationRejected ==
  InvalidConfiguration =>
    /\ pc # "Return"
    /\ \A k \in 1..Len(returned) : returned[k].states = <<>>
    /\ visited_candidates_ = {}

\* The states an engine can be in.
EngineStates == 1..(LCG_Modulus - 1)

RECURSIVE Advance(_, _)
\* The state of an engine after n draws.
Advance(state, n) == IF n = 0 THEN state ELSE Advance(NextState(state), n - 1)

\* The outcomes of the die of CrossOver, and the number of engine states that
\* give an outcome.
DieOutcomes == {CrossOverDie(state) : state \in EngineStates}

DieWeights ==
  [outcome \in DieOutcomes |-> Cardinality({state \in EngineStates : CrossOverDie(state) = outcome})]

DieWeight(outcome) == IF outcome \in DieOutcomes THEN DieWeights[outcome] ELSE 0

\* The die tossed for position p (from 1) of crossover k.
DieAt(k, p) == CrossOverDie(Advance(parents[k].seed, p - 1))

\* Every child has as many expressions as its parents, and at each position
\* the father's expression for outcome 0 of the die, the mother's otherwise.
ChildrenFollowDice ==
  \A k \in 1..Len(parents) :
    /\ Len(parents[k].child.exprs) = Len(parents[k].father.exprs)
    /\ Len(parents[k].child.exprs) = Len(parents[k].mother.exprs)
    /\ \A p \in 1..Len(parents[k].child.exprs) :
         parents[k].child.exprs[p] =
           IF DieAt(k, p) = 0 THEN parents[k].father.exprs[p] ELSE parents[k].mother.exprs[p]

\* C13 as stated: the die of CrossOver has the three equally likely outcomes
\* 0, 1 and 2; a position takes the father's expression for 0 and the
\* mother's for 1 and 2 (the mother in two outcomes of three); the child has
\* as many expressions as its parents.
C13_ThreeSidedDie ==
  parents # <<>> =>
    /\ DieOutcomes = {0, 1, 2}
    /\ \A outcome \in DieOutcomes : DieWeight(outcome) = DieWeight(0)
    /\ ChildrenFollowDice

\* C13, amended: the die is SampleUniformInt(0, 2), whose upper bound is
\* exclusive: it has the two equally likely outcomes 0 and 1; a position takes
\* the father's expression for 0 and the mother's for 1, so each parent is
\* chosen in one outcome of two; the child has as many expressions as its
\* parents.
C13_TwoSidedDie ==
  parents # <<>> =>
    /\ DieOutcomes = {0, 1}
    /\ DieWeight(0) = DieWeight(1)
    /\ ChildrenFollowDice

\* A child of parents that differ at two positions took one expression of
\* its father and one of its mother.
C13_Witness ==
  \E k \in 1..Len(parents) :
    \E p, q \in 1..Len(parents[k].child.exprs) :
      /\ parents[k].father.exprs[p] # parents[k].mother.exprs[p]
      /\ parents[k].father.exprs[q] # parents[k].mother.exprs[q]
      /\ DieAt(k, p) = 0
      /\ DieAt(k, q) = 1
      /\ parents[k].child.exprs[p] = parents[k].father.exprs[p]
      /\ parents[k].child.exprs[q] = parents[k].mother.exprs[q]

\* A step of EvolveCrossOver that made a child.
ChildMade == AtCrossOver /\ Len(parents') = Len(parents) + 1

\* C14: CrossOver leaves both parents as they were (engine state, expressions
\* and cost); its draws, one per position, and the fork for the child advance
\* rand_seed_ alone; the child's engine state is forked from rand_seed_ after
\* the draws, and the child is unscored.
C14_CrossOverLeavesParents ==
  /\ [][ChildMade =>
          LET made == parents'[Len(parents')]
              positions == Len(Father.exprs)
          IN /\ population' = population
             /\ SubSeq(evolution', 1, Len(evolution)) = evolution
             /\ made.father = Father
             /\ made.mother = Mother
             /\ population'[made.first + 1] = Father
             /\ population'[made.second + 1] = Mother
             /\ search_space_' = search_space_
             /\ rand_seed_' = Advance(rand_seed_, positions + 1)
             /\ made.child.rand = ForkRandomState(Advance(rand_seed_, positions))
             /\ made.child.predicted_cost = NOT_INIT
             /\ evolution' = Append(evolution, made.child)]_vars
  /\ [](pc \in {"CrossOverLoop", "Resample", "MutateLoop", "EvolveDone"} =>
          \A k \in 1..Len(parents) :
            /\ population[parents[k].first + 1] = parents[k].father
            /\ population[parents[k].second + 1] = parents[k].mother)

\* Two crossovers have taken the same state of the population as a parent,
\* and their children carry engine states of their own.
C14_Witness ==
  /\ pc = "MutateLoop"
  /\ Len(parents) = 2
  /\ {parents[1].first, parents[1].second} \cap {parents[2].first, parents[2].second} # {}
  /\ parents[1].child.rand # parents[2].child.rand
  /\ \A k \in 1..2 : parents[k].child.rand \notin {parents[k].father.rand, parents[k].mother.rand}

\* In the log of the running call, every draw of a kind in `before` precedes
\* every draw of a kind in `after`.
Precede(before, after) ==
  \A j \in 1..Len(draws) :
    draws[j] \in after => \A i \in j..Len(draws) : draws[i] \notin before

\* C15 as stated: in a round of search_eps_greedy every draw of the sketch
\* generation (rule-prune sketches of the population, random-prune sketches of
\* the randoms list) precedes every parent-selection draw, and every
\* parent-selection draw precedes every mutation draw.
C15_SketchesThenParentsThenMutation ==
  (call = EpsGreedy /\ ValidConfiguration) =>
    /\ Precede({"rule_prune", "random_prune"}, {"parent"})
    /\ Precede({"parent"}, {"mutate"})

\* C15, amended: in a round the draws of the rule-prune sketches of the
\* population precede every parent-selection draw, and every parent-selection
\* draw (with the draws of its crossover) precedes every mutation draw; the
\* draws of the random-prune sketches of the randoms list are made after
\* SearchModuleExprBests has returned, so they follow every parent-selection
\* draw and every mutation draw.
C15_RandomSketchesLast ==
  /\ Precede({"replay", "rule_prune"}, {"parent", "die", "child"})
  /\ Precede({"parent", "die", "child"}, {"mutate"})
  /\ Precede({"replay", "rule_prune", "parent", "die", "child", "mutate"}, {"random_prune"})
  /\ call # EpsGreedy => \A i \in 1..Len(draws) : draws[i] # "random_prune"

\* A round of search_eps_greedy has made draws of every kind.
C15_Witness ==
  /\ call = EpsGreedy
  /\ pc = "PickLoop"
  /\ {"replay", "rule_prune", "parent", "die", "child", "mutate", "random_prune"}
       \subseteq {draws[i] : i \in 1..Len(draws)}
  /\ Len(parents) = 2

\* The elements of the expanded set on which the mutation does not throw.
Mutable == {k \in 1..Len(evolution) : ~MutateThrows(evolution[k])}

\* C16: when the scored mutation of an element of the expanded set throws,
\* nothing thrown reaches the caller of the search; the element is dropped,
\* every other element is mutated and scored, and Evolve returns the
\* lowest-cost states of those (stated for the configurations the
\* specification admits).
C16_MutationFailureAbsorbed ==
  ValidConfiguration =>
    /\ pc # "Thrown"
    /\ (pc = "EvolveDone" /\ population # <<>>) =>
         /\ Len(scored) = Cardinality(Mutable)
         /\ picked_bests = LowestCost(scored, Num)

\* The records GetTopK returns for the options of the call.
WarmStarts == GetTopK(database_, options.evolution_pick_database_topk)

\* C17: the initial population is the warm starts (one state per record of
\* GetTopK, in record order, with the record's predicted cost) followed by
\* exactly init_population_num - |warm starts| rule-prune sketches; it holds
\* no more than max(init_population_num, |warm starts|) states, and the count
\* asked of the sketch generator is never negative (stated for
\* init_population_num > 0).
C17_PopulationIsWarmStartsThenSketches ==
  (pc = "Evolve" /\ options.evolution_init_population_num > 0) =>
    LET warm == Len(WarmStarts)
    IN /\ InitNum(WarmStarts) >= 0
       /\ Len(population) = warm + InitNum(WarmStarts)
       /\ \A k \in 1..Len(population) :
            IF k <= warm
            THEN /\ population[k].origin = "database"
                 /\ population[k].exprs = ReplayWithProto(WarmStarts[k].trace)
                 /\ population[k].predicted_cost = WarmStarts[k].predicted_cost
            ELSE population[k].origin = "sketch"
       /\ Len(population) <= Max(options.evolution_init_population_num, warm)

\* The fingerprints of the states the eps-greedy calls returned so far, those
\* the running pick has appended to its result included.
ReturnedByEpsGreedy ==
  UNION {IF returned[k].call = EpsGreedy THEN Fingerprints(returned[k].states) ELSE {} :
           k \in 1..Len(returned)}
  \cup (IF InPick THEN Fingerprints(result) ELSE {})

\* C18: visited_candidates_ is the set of the states search_eps_greedy has
\* returned so far.  The set only grows; it grows exactly when the pick
\* appends a state to its result, by that state; a skipped candidate changes
\* neither; SearchModuleExpr and SearchModuleExprBests leave the set alone.
C18_VisitedIsReturned ==
  /\ [](visited_candidates_ = ReturnedByEpsGreedy)
  /\ [][/\ visited_candidates_ \subseteq visited_candidates_'
        /\ visited_candidates_' # visited_candidates_ =>
             /\ call = EpsGreedy /\ pc = "PickLoop"
             /\ Len(result') = Len(result) + 1
             /\ Fingerprint(result'[Len(result')]) \notin visited_candidates_
             /\ visited_candidates_' =
                  visited_candidates_ \cup {Fingerprint(result'[Len(result')])}
        /\ (pc = "PickLoop" /\ pc' = "PickLoop" /\ result' # result) =>
             visited_candidates_' # visited_candidates_
        /\ deduplicated_cnt' > deduplicated_cnt =>
             visited_candidates_' = visited_candidates_ /\ result' = result
        /\ call' # EpsGreedy => visited_candidates_' = visited_candidates_]_vars

\* After an eps-greedy call that returned states, SearchModuleExpr has
\* returned a state that is not in the visited set.
C18_Witness ==
  /\ Len(returned) = 2
  /\ returned[1].call = EpsGreedy
  /\ returned[1].states # <<>>
  /\ returned[2].call = "SearchModuleExpr"
  /\ returned[2].states # <<>>
  /\ Fingerprints(returned[2].states) \cap visited_candidates_ = {}
  /\ visited_candidates_ = Fingerprints(returned[1].states)

\* C19: SearchModuleExpr returns the first, lowest-cost state of the list of
\* SearchModuleExprBests, and never reads element 0 of an empty list, whatever
\* the database and the configuration, an empty population included.
C19_SearchModuleExprReturnsFirst ==
  call = "SearchModuleExpr" =>
    /\ pc = "EvolveDone" => picked_bests # <<>>
    /\ pc = "Return" =>
         /\ picked_bests # <<>>
         /\ result = <<picked_bests[1]>>
         /\ result = LowestCost(scored, 1)

\* The reduce keeps exactly the last dimension of its input: every preceding
\* dimension is in dim and the last one is not.
KeepsExactlyLast(node) ==
  /\ \A i \in 0..(Len(node.in_shape) - 2) : i \in node.dim
  /\ (Len(node.in_shape) - 1) \notin node.dim

WasSplit(k) == Len(rewritten[k]) = 4

\* C20: Apply splits a reduce node into reshape, reduce, reduce, reshape only
\* when the reduce keeps exactly the last dimension of its input and the input
\* has more than MAX_NUM_THREADS * 32 elements; the output of the second
\* reduce of a split node has as many elements as the original output shape;
\* every other node is left as it is.
C20_SplitOnlyLastDimKept ==
  \A k \in 1..Len(rewritten) :
    IF WasSplit(k)
    THEN /\ IsReduceOp(graph[k])
         /\ KeepsExactlyLast(graph[k])
         /\ Numel(graph[k].in_shape) > MAX_NUM_THREADS * MAX_ITER_PER_THREAD
         /\ [j \in 1..4 |-> rewritten[k][j].op] =
              <<"reshape", graph[k].op, graph[k].op, "reshape">>
         /\ Numel(rewritten[k][3].out_shape) = Numel(graph[k].out_shape)
    ELSE rewritten[k] = <<graph[k]>>

\* floor(sqrt(n)).
FloorSqrt(n) == CHOOSE r \in 0..n : r * r <= n /\ (r + 1) * (r + 1) > n

Divides(d, n) == d > 0 /\ n % d = 0

\* The factor pairs of n.
FactorPairs(n) == {<<c, d>> \in (1..n) \X (1..n) : c * d = n}

Difference(c, d) == IF c >= d THEN c - d ELSE d - c

DivideReturned == pass_pc = "Returned"

\* C21: DivideToClosetNum(n) terminates for every n >= 1 and returns a pair
\* (a, b) of positive integers with a * b = n, where a is the smallest divisor
\* of n that is at least floor(sqrt(n)), and no factor pair of n has a smaller
\* difference |a - b|.
C21_DivideToClosetNum ==
  /\ [](DivideReturned =>
          /\ div_a > 0
          /\ div_b > 0
          /\ div_a * div_b = div_n
          /\ Divides(div_a, div_n)
          /\ div_a >= FloorSqrt(div_n)
          /\ \A d \in FloorSqrt(div_n)..(div_a - 1) : ~Divides(d, div_n)
          /\ \A pair \in FactorPairs(div_n) :
               Difference(div_a, div_b) <= Difference(pair[1], pair[2]))
  /\ (pass_pc = "Call" /\ div_n >= 1) ~> DivideReturned

\* The function returned after several iterations of its loop, with a factor
\* pair that is neither (n, 1) nor the pair of the truncated root.
C21_Witness ==
  /\ DivideReturned
  /\ div_a > FloorSqrt(div_n) + 1
  /\ div_b > 1
  /\ div_a * div_b = div_n

====
